---- MODULE Spec2Model ----
(***************************************************************************)
(* Model of ib_insync/client.py: the asyncio Client (session state,        *)
(* framing of the inbound byte stream, readiness barrier, outbound rate    *)
(* limiter), its Connection and the Socket protocol object.                *)
(*                                                                         *)
(* Bytes are their ASCII codes.  The event loop is single threaded, so     *)
(* every callback (socket event, timer, resumed coroutine) and every       *)
(* caller-facing method is one atomic action.                              *)
(***************************************************************************)
EXTENDS Integers, Sequences, FiniteSets, TLC

VARIABLES client, conns, loop, hist

vars == <<client, conns, loop, hist>>

(***************************************************************************)
(* Bounds of the model.                                                    *)
(***************************************************************************)
\* Connection objects ever created (calls of connectAsync).
MaxConns == 2
\* Frames the peer writes, over all sockets.
MaxFrames == 3
\* Calls of sendMsg by the user, over all sessions.
MaxSends == 3
\* loop.time() runs over 0..MaxTime.
MaxTime == 4
\* Calls of getReqId that return an id, per session.
MaxReqIds == 2
\* Client.MaxRequests and Client.RequestsInterval are class attributes the
\* user configures (250 and 5 by default); the model runs them scaled down.
MaxRequests == 2
RequestsInterval == 2

(***************************************************************************)
(* Bytes, integers in text form, splitting.                                *)
(***************************************************************************)
NUL == 0
COMMA == 44

Last(s) == s[Len(s)]
ButLast(s) == SubSeq(s, 1, Len(s) - 1)

IsDigit(b) == b \in 48..57

\* The text is one int(...) accepts: within the model's alphabet, a
\* non-empty run of decimal digits.
IsInt(bs) == Len(bs) > 0 /\ \A i \in 1..Len(bs) : IsDigit(bs[i])

RECURSIVE IntOf(_)
IntOf(bs) == IF bs = <<>> THEN 0 ELSE 10 * IntOf(ButLast(bs)) + (Last(bs) - 48)

\* bytes.split(sep): always at least one element.
RECURSIVE split(_, _)
split(bs, sep) ==
  IF \A i \in 1..Len(bs) : bs[i] # sep
  THEN <<bs>>
  ELSE LET i == CHOOSE j \in 1..Len(bs) :
                  bs[j] = sep /\ \A m \in 1..(j - 1) : bs[m] # sep
       IN <<SubSeq(bs, 1, i - 1)>> \o split(SubSeq(bs, i + 1, Len(bs)), sep)

\* struct.pack('>I', n) and struct.unpack('>I', b)[0]
pack(n) == <<(n \div 16777216) % 256, (n \div 65536) % 256,
             (n \div 256) % 256, n % 256>>
unpack(b) == b[1] * 16777216 + b[2] * 65536 + b[3] * 256 + b[4]

\* Client._prefix
prefix(msg) == pack(Len(msg)) \o msg

(***************************************************************************)
(* What the peer writes: frames, as the gateway encodes them (every field  *)
(* terminated by NUL, the body prefixed with its length).                  *)
(***************************************************************************)
RECURSIVE Body(_)
Body(fields) ==
  IF fields = <<>> THEN <<>> ELSE Head(fields) \o <<NUL>> \o Body(Tail(fields))

Frame(fields) == prefix(Body(fields))

\* handshake reply "1", "T"
FHandshake == << <<49>>, <<84>> >>
\* a two-field frame whose first field is no integer: "x", "T"
FBadHandshake == << <<120>>, <<84>> >>
\* nextValidId 7 and nextValidId 0: "9","1","7" / "9","1","0"
FNextValidId7 == << <<57>>, <<49>>, <<55>> >>
FNextValidId0 == << <<57>>, <<49>>, <<48>> >>
\* managedAccounts "15","1","A"
FAccounts == << <<49, 53>>, <<49>>, <<65>> >>
\* another kind (4, an error message shortened to two fields): "4","2"
FOther == << <<52>>, <<50>> >>

PeerFrames == {Frame(FHandshake), Frame(FBadHandshake), Frame(FNextValidId7),
               Frame(FNextValidId0), Frame(FAccounts), Frame(FOther),
               Frame(<<>>)}

(***************************************************************************)
(* The state.                                                              *)
(*   client  the fields of the Client object (EClient's included)          *)
(*   conns   the Connection objects ever created, with their Socket and    *)
(*           the connectAsync call that made them                          *)
(*   loop    the event loop: its clock and the pending call_at timers      *)
(*   hist    what the last step did and returned, and the frames handed    *)
(*           to the transports (history)                                   *)
(* Operators below work on a record w = [c, n, l, h] of the four.          *)
(***************************************************************************)
World == [c |-> client, n |-> conns, l |-> loop, h |-> hist]

\* The step ends in the state v that the handler computed.
Becomes(w) ==
  \E v \in {w} :
    /\ client' = v.c
    /\ conns' = v.n
    /\ loop' = v.l
    /\ hist' = v.h

ConnIds == 1..MaxConns

\* sendMsg(None): the timer's call carries no message.
NoMsg == [id |-> 0, kind |-> "None", st |-> 0]

\* Start of a step: forget what the previous step returned.
Begin(w) ==
  [w EXCEPT !.h.exc = "", !.h.ret = <<>>, !.h.hooks = <<>>,
            !.h.frames = <<>>, !.h.disp = <<>>, !.h.args = <<>>]

Raise(w, e) == [w EXCEPT !.h.exc = e]
Hook(w, name) == [w EXCEPT !.h.hooks = Append(@, name)]

\* Python truth value of serverVersion_ (None or 0 are false); None is <<>>.
Truthy(v) == v # <<>> /\ v[1] # 0

\* Client.isReady
isReady(w) == w.c.ready

\* EClient.isConnected of the ibapi base class, as _onSocketDisconnected
\* and startApi use it.
isConnected(w) == w.c.connState = "CONNECTED"

(***************************************************************************)
(* Client.reset.  EClient.reset drops conn (without closing it), the       *)
(* server version, the connection time and sets the state DISCONNECTED.    *)
(* A new asyncio.Event replaces _readyEvent: a connectAsync still waiting  *)
(* holds the old one, which keeps the value it had.                        *)
(***************************************************************************)
\* (mutation of reset: lines 94-95 left out, the queues survive)
resetKeepsQueues(w) ==
  [w EXCEPT
     !.c.conn = 0, !.c.serverVersion = <<>>, !.c.connTime = <<>>,
     !.c.connState = "DISCONNECTED",
     !.c.data = <<>>, !.c.ready = FALSE, !.c.reqIdSeq = 0,
     !.c.accounts = <<>>, !.c.startTime = w.l.now,
     !.c.numBytesRecv = 0, !.c.numMsgRecv = 0, !.c.isThrottling = FALSE,
     !.n = [k \in ConnIds |->
              [w.n[k] EXCEPT !.ev = IF @ = "cur"
                                    THEN (IF w.c.ready THEN "staleSet"
                                                       ELSE "staleUnset")
                                    ELSE @]],
     !.h.got9 = FALSE, !.h.got15 = FALSE, !.h.ids = <<>>]

reset(w) ==
  [w EXCEPT
     !.c.conn = 0, !.c.serverVersion = <<>>, !.c.connTime = <<>>,
     !.c.connState = "DISCONNECTED",
     !.c.data = <<>>, !.c.ready = FALSE, !.c.reqIdSeq = 0,
     !.c.accounts = <<>>, !.c.startTime = w.l.now,
     !.c.numBytesRecv = 0, !.c.numMsgRecv = 0, !.c.isThrottling = FALSE,
     !.c.msgQ = <<>>, !.c.timeQ = <<>>,
     !.n = [k \in ConnIds |->
              [w.n[k] EXCEPT !.ev = IF @ = "cur"
                                    THEN (IF w.c.ready THEN "staleSet"
                                                       ELSE "staleUnset")
                                    ELSE @]],
     !.h.got9 = FALSE, !.h.got15 = FALSE, !.h.ids = <<>>]

(***************************************************************************)
(* Client.sendMsg, the rate limiter.                                       *)
(***************************************************************************)
\* lines 178-179
RECURSIVE evict(_, _)
evict(times, t) ==
  IF times # <<>> /\ t - Head(times) > RequestsInterval
  THEN evict(Tail(times), t)
  ELSE times

\* (mutation of call_at: the flush is not scheduled)
call_atDropped(timers, when) == timers

\* loop.call_at: the timers, kept in the order they fall due
RECURSIVE call_at(_, _)
call_at(timers, when) ==
  IF timers = <<>> THEN <<when>>
  ELSE IF when < Head(timers) THEN <<when>> \o timers
  ELSE <<Head(timers)>> \o call_at(Tail(timers), when)

\* Connection.sendMsg on the client's conn: conn is None after a reset and
\* conn.socket is None until the socket is connected; both raise.
connWrite(w) ==
  IF w.c.conn = 0 \/ ~w.n[w.c.conn].socket
  THEN Raise(w, "AttributeError")
  ELSE [w EXCEPT !.n[w.c.conn].numMsgSent = @ + 1]

\* line 184: the rate limiter hands msg to the transport; hist.wire keeps
\* what it handed over, where and when
connSendMsg(w, msg) ==
  LET w1 == connWrite(w)
  IN IF w1.h.exc # "" THEN w1
     ELSE [w1 EXCEPT !.h.wire = Append(@, [conn |-> w.c.conn, t |-> w.l.now,
                                           id |-> msg.id, st |-> msg.st])]

\* line 182: room in the window
\* (mutation of admits: off by one, lets MaxRequests + 1 into a window)
admitsOneTooMany(times) == Len(times) <= MaxRequests
admits(times) == Len(times) < MaxRequests

\* line 183: msgs.popleft(), the frame taken and the queue left
\* (mutation of popleft: pop() takes the newest frame)
popRight(msgs) == [msg |-> Last(msgs), rest |-> ButLast(msgs)]
popleft(msgs) == [msg |-> Head(msgs), rest |-> Tail(msgs)]

\* lines 182-185
RECURSIVE sendLoop(_)
sendLoop(w) ==
  IF w.c.msgQ # <<>> /\ admits(w.c.timeQ)
  THEN LET p == popleft(w.c.msgQ)
           w1 == connSendMsg([w EXCEPT !.c.msgQ = p.rest], p.msg)
       IN IF w1.h.exc # "" THEN w1
          ELSE sendLoop([w1 EXCEPT !.c.timeQ = Append(@, w.l.now)])
  ELSE w

sendMsg(w, msg) ==
  LET t == w.l.now
      w1 == [w EXCEPT !.c.timeQ = evict(@, t),
                      !.c.msgQ = IF msg.id # 0 THEN Append(@, msg) ELSE @]
      w2 == sendLoop(w1)
  IN IF w2.h.exc # "" THEN w2
     ELSE IF w2.c.msgQ # <<>>
     THEN [w2 EXCEPT !.c.isThrottling = TRUE,
                     !.l.timers = call_at(@, Head(w2.c.timeQ) + RequestsInterval)]
     ELSE [w2 EXCEPT !.c.isThrottling = FALSE]

\* EClient.startApi of the ibapi base class: the start-API frame goes through
\* Client.sendMsg when the state is CONNECTED.
startApi(w) ==
  IF ~isConnected(w) THEN w
  ELSE sendMsg([w EXCEPT !.h.nextId = @ + 1],
               [id |-> w.h.nextId, kind |-> "startApi", st |-> w.l.now])

(***************************************************************************)
(* Client._onSocketConnected                                               *)
(***************************************************************************)
onSocketConnected(w) ==
  LET w1 == connWrite(w)
  IN IF w1.h.exc # "" THEN w1 ELSE [w1 EXCEPT !.c.decoder = TRUE]

(***************************************************************************)
(* Client._decode                                                          *)
(***************************************************************************)
IsFloat(bs) ==
  /\ \E i \in 1..Len(bs) : IsDigit(bs[i])
  /\ \A i \in 1..Len(bs) : IsDigit(bs[i]) \/ bs[i] = 46
  /\ Cardinality({i \in 1..Len(bs) : bs[i] = 46}) <= 1

\* float(text): the decimal value num / 10^exp, in lowest terms of ten
RECURSIVE Normal(_, _)
Normal(num, exp) ==
  IF exp > 0 /\ num % 10 = 0 THEN Normal(num \div 10, exp - 1)
  ELSE <<num, exp>>

FloatOf(bs) ==
  LET digits == SelectSeq(bs, LAMBDA b : IsDigit(b))
      point == {i \in 1..Len(bs) : bs[i] = 46}
  IN Normal(IntOf(digits),
            IF point = {} THEN 0 ELSE Len(bs) - (CHOOSE i \in point : TRUE))

\* A callback or the interpreter is called with args; "failed" stands for
\* the exception _decode raised instead (caught at lines 249-250).
Dispatched(w, target, args) ==
  [w EXCEPT !.h.disp = Append(@, target), !.h.args = Append(@, args)]

\* self.decoder.interpret(fields); without a decoder attribute it raises
interpret(w, fields) ==
  IF w.c.decoder THEN Dispatched(w, "interpret", fields)
  ELSE Dispatched(w, "failed", <<>>)

\* lines 336-340
nextValidId(w, fields) ==
  [w EXCEPT !.h.got9 = TRUE,
            !.c.reqIdSeq = IntOf(fields[3]),
            !.c.ready = IF w.c.accounts # <<>> THEN TRUE ELSE @]

\* (mutation of managedAccounts: sets the event without looking at _reqIdSeq)
managedAccountsAlwaysReady(w, fields) ==
  [w EXCEPT !.h.got15 = TRUE,
            !.c.accounts = split(fields[3], COMMA),
            !.c.ready = TRUE]

\* lines 341-345; _accounts is None (here <<>>) until then, and the split
\* of any text has at least one element
managedAccounts(w, fields) ==
  [w EXCEPT !.h.got15 = TRUE,
            !.c.accounts = split(fields[3], COMMA),
            !.c.ready = IF w.c.reqIdSeq # 0 THEN TRUE ELSE @]

AllInt(fields, idx) == \A i \in idx : IsInt(fields[i])

\* (mutation of priceSizeTick: the return of line 318 left out, the frame
\* goes on to the interpreter as well)
priceSizeTickFallsThrough(w, fields) ==
  IF Len(fields) = 7 /\ AllInt(fields, {3, 4, 6}) /\ IsFloat(fields[5])
  THEN interpret(Dispatched(w, "priceSizeTick",
                            <<IntOf(fields[3]), IntOf(fields[4]),
                              FloatOf(fields[5]), IntOf(fields[6])>>), fields)
  ELSE Dispatched(w, "failed", <<>>)

\* lines 314-318, kind 1 with a priceSizeTick handler registered
priceSizeTick(w, fields) ==
  IF Len(fields) = 7 /\ AllInt(fields, {3, 4, 6}) /\ IsFloat(fields[5])
  THEN Dispatched(w, "priceSizeTick",
                  <<IntOf(fields[3]), IntOf(fields[4]),
                    FloatOf(fields[5]), IntOf(fields[6])>>)
  ELSE Dispatched(w, "failed", <<>>)

decode(w, fields) ==
  IF fields = <<>> \/ ~IsInt(fields[1]) THEN Dispatched(w, "failed", <<>>)
  ELSE LET msgId == IntOf(fields[1]) IN
    CASE msgId = 1 /\ w.c.priceSizeTick -> priceSizeTick(w, fields)
      [] msgId = 2 ->
           IF Len(fields) = 5 /\ AllInt(fields, {3, 4, 5})
           THEN Dispatched(w, "tickSize",
                           <<IntOf(fields[3]), IntOf(fields[4]),
                             IntOf(fields[5])>>)
           ELSE Dispatched(w, "failed", <<>>)
      [] msgId = 12 ->
           IF Len(fields) = 8 /\ AllInt(fields, {3, 4, 5, 6, 8})
              /\ IsFloat(fields[7])
           THEN Dispatched(w, "updateMktDepth",
                           <<IntOf(fields[3]), IntOf(fields[4]),
                             IntOf(fields[5]), IntOf(fields[6]),
                             FloatOf(fields[7]), IntOf(fields[8])>>)
           ELSE Dispatched(w, "failed", <<>>)
      [] msgId = 46 ->
           IF Len(fields) = 5 /\ AllInt(fields, {3, 4})
           THEN Dispatched(w, "tickString",
                           <<IntOf(fields[3]), IntOf(fields[4]), fields[5]>>)
           ELSE Dispatched(w, "failed", <<>>)
      [] msgId = 9 ->
           IF Len(fields) # 3 \/ ~IsInt(fields[3])
           THEN Dispatched(w, "failed", <<>>)
           ELSE interpret(nextValidId(w, fields), fields)
      [] msgId = 15 ->
           IF Len(fields) # 3 THEN Dispatched(w, "failed", <<>>)
           ELSE interpret(managedAccounts(w, fields), fields)
      [] OTHER -> interpret(w, fields)

(***************************************************************************)
(* Client._onSocketHasData                                                 *)
(***************************************************************************)
\* lines 235-244, the two-field frame that concludes the handshake.  None of
\* it is inside a try: int(version), a missing decoder and a send that
\* raises all leave _onSocketHasData with the exception.
handshake(w, fields) ==
  LET w1 == Dispatched([w EXCEPT !.c.connTime = fields[2]], "handshake", fields)
  IN IF ~IsInt(fields[1]) THEN Raise(w1, "ValueError")
     ELSE LET w2 == [w1 EXCEPT !.c.serverVersion = <<IntOf(fields[1])>>]
          IN IF ~w2.c.decoder THEN Raise(w2, "AttributeError")
             ELSE startApi([w2 EXCEPT !.c.connState = "CONNECTED"])

\* lines 218-253: the extraction loop and, when it ends normally, the
\* tcpDataProcessed hook
RECURSIVE processFrames(_)
processFrames(w) ==
  LET data == w.c.data IN
  IF Len(data) <= 4 THEN Hook(w, "tcpDataProcessed")
  ELSE LET msgEnd == 4 + unpack(SubSeq(data, 1, 4)) IN
    IF Len(data) < msgEnd THEN Hook(w, "tcpDataProcessed")
    ELSE LET msg == SubSeq(data, 5, msgEnd)
             fields == ButLast(split(msg, NUL))
             w1 == [w EXCEPT !.c.data = SubSeq(data, msgEnd + 1, Len(data)),
                             !.c.numMsgRecv = @ + 1,
                             !.h.frames = Append(@, fields)]
         IN IF ~Truthy(w1.c.serverVersion) /\ Len(fields) = 2
            THEN LET w2 == handshake(w1, fields)
                 IN IF w2.h.exc # "" THEN w2 ELSE processFrames(w2)
            ELSE processFrames(decode(w1, fields))

\* lines 215-216
appendData(w, data) ==
  [w EXCEPT !.c.data = @ \o data, !.c.numBytesRecv = @ + Len(data)]

onSocketHasData(w, data) == processFrames(appendData(w, data))

(***************************************************************************)
(* Client._onSocketDisconnected and Client._onSocketHasError               *)
(***************************************************************************)
apiError(w, msg) == IF w.c.apiError THEN Hook(w, msg) ELSE w
apiEnd(w) == IF w.c.apiEnd THEN Hook(w, "apiEnd") ELSE w

onSocketDisconnected(w) ==
  LET w1 == IF isConnected(w)
            THEN apiError(w, IF ~isReady(w) THEN "apiError: clientId already in use?"
                                            ELSE "apiError: Peer closed connection")
            ELSE w
  IN apiEnd(reset(w1))

onSocketHasError(w) == apiError(reset(w), "apiError: socket error")

(***************************************************************************)
(* Accessors: connectionStats, getReqId, getAccounts                       *)
(***************************************************************************)
connectionStats(w) ==
  IF ~isReady(w) THEN Raise(w, "AssertionError: Not connected")
  ELSE IF w.c.conn = 0 THEN Raise(w, "AttributeError")
  ELSE [w EXCEPT !.h.ret = <<w.c.startTime, w.c.numBytesRecv, w.c.numMsgRecv,
                             w.n[w.c.conn].numMsgSent>>]

getReqId(w) ==
  IF ~isReady(w) THEN Raise(w, "AssertionError: Not connected")
  ELSE [w EXCEPT !.h.ret = <<w.c.reqIdSeq>>, !.c.reqIdSeq = @ + 1,
                 !.h.ids = Append(@, w.c.reqIdSeq)]

getAccounts(w) ==
  IF ~isReady(w) THEN Raise(w, "AssertionError: Not connected")
  ELSE [w EXCEPT !.h.ret = w.c.accounts]

(***************************************************************************)
(* Connection and Socket                                                   *)
(***************************************************************************)
\* Connection.disconnect: closes the transport only when conn.socket is set.
\* A closed transport reports connection_lost(None) later, from the loop.
connDisconnect(w, k) ==
  IF w.n[k].socket
  THEN [w EXCEPT !.n[k].socket = FALSE,
                 !.n[k].sock = IF @ = "open" THEN "closing" ELSE @,
                 !.n[k].pipe = <<>>]
  ELSE w

\* EClient.disconnect of the ibapi base class
disconnect(w) ==
  LET w1 == [w EXCEPT !.c.connState = "DISCONNECTED"]
  IN IF w1.c.conn = 0 THEN w1 ELSE reset(connDisconnect(w1, w1.c.conn))

\* lines 147-155 of connectAsync, up to the await: a new Connection k
connectStart(w, k) ==
  [w EXCEPT !.c.connState = "CONNECTING", !.c.conn = k,
            !.n[k] = [sock |-> "connecting", socket |-> FALSE,
                      attempt |-> "pending", ev |-> "cur", pipe |-> <<>>,
                      numMsgSent |-> 0]]

\* asyncio.gather(conn.connect(), _readyEvent.wait()) has both results
gatherDone(w, k) ==
  /\ w.n[k].sock \in {"open", "closing", "lost"}
  /\ \/ w.n[k].ev = "staleSet"
     \/ w.n[k].ev = "cur" /\ w.c.ready

\* lines 159-161
connectSucceeds(w, k) == Hook([w EXCEPT !.n[k].attempt = "ok"], "apiStart")

\* lines 162-171; wait_for cancels the connect task still running
connectFails(w, k, e) ==
  LET w1 == [w EXCEPT !.n[k].attempt = e,
                      !.n[k].sock = IF @ = "connecting"
                                    THEN (IF e = "TimeoutError" THEN "cancelled"
                                                                ELSE "refused")
                                    ELSE @]
  IN Raise(apiError(reset(w1), "apiError: API connection failed"), e)

\* Connection._onConnectionCreated, lines 368-371
onConnectionCreated(w, k) ==
  onSocketConnected([w EXCEPT !.n[k].sock = "open", !.n[k].socket = TRUE])

(***************************************************************************)
(* Init: the Client as __init__ leaves it (EClient.__init__ calls reset);  *)
(* the optional callbacks apiError and apiEnd are registered or not.       *)
(***************************************************************************)
NoConn == [sock |-> "none", socket |-> FALSE, attempt |-> "none", ev |-> "none",
           pipe |-> <<>>, numMsgSent |-> 0]

\* Client.__init__ with a wrapper that has a priceSizeTick method or not
\* (p) and the apiError and apiEnd callbacks registered or not (e, d)
InitClient(p, e, d) ==
  [connState |-> "DISCONNECTED", conn |-> 0, serverVersion |-> <<>>,
   connTime |-> <<>>, decoder |-> FALSE, data |-> <<>>,
   ready |-> FALSE, reqIdSeq |-> 0, accounts |-> <<>>,
   startTime |-> 0, numBytesRecv |-> 0, numMsgRecv |-> 0,
   isThrottling |-> FALSE, msgQ |-> <<>>, timeQ |-> <<>>,
   priceSizeTick |-> p, apiError |-> e, apiEnd |-> d]

InitRest ==
  /\ conns = [k \in ConnIds |-> NoConn]
  /\ loop = [now |-> 0, timers |-> <<>>]
  /\ hist = [exc |-> "", ret |-> <<>>, hooks |-> <<>>,
             frames |-> <<>>, disp |-> <<>>, args |-> <<>>, wire |-> <<>>,
             nextId |-> 1, userSends |-> 0, peerSent |-> 0, nextConn |-> 1,
             got9 |-> FALSE, got15 |-> FALSE, ids |-> <<>>]

\* The wrapper of these sessions has no priceSizeTick method.
Init ==
  /\ \E e \in BOOLEAN, d \in BOOLEAN : client = InitClient(FALSE, e, d)
  /\ InitRest

(***************************************************************************)
(* Actions: one per caller-facing method and per event-loop callback.      *)
(***************************************************************************)
Now == Begin(World)

\* Client.connectAsync called: runs to its await
ConnectAsync ==
  /\ hist.nextConn <= MaxConns
  /\ Becomes(connectStart([Now
                             EXCEPT !.h.nextConn = @ + 1], hist.nextConn))

\* create_connection succeeded: Connection._onConnectionCreated
SocketConnected(k) ==
  /\ conns[k].sock = "connecting"
  /\ Becomes(onConnectionCreated(Now, k))

\* create_connection failed: the gather raises inside connectAsync
ConnectRefused(k) ==
  /\ conns[k].sock = "connecting"
  /\ conns[k].attempt = "pending"
  /\ Becomes(connectFails(Now, k, "ConnectionRefusedError"))

\* wait_for's timeout fires while connectAsync awaits
ConnectTimeout(k) ==
  /\ conns[k].attempt = "pending"
  /\ Becomes(connectFails(Now, k, "TimeoutError"))

\* the gather completed: connectAsync resumes and returns
ConnectReturn(k) ==
  /\ conns[k].attempt = "pending"
  /\ gatherDone(World, k)
  /\ Becomes(connectSucceeds(Now, k))

\* EClient.disconnect called
Disconnect ==
  Becomes(disconnect(Now))

\* the peer writes frame f to socket k
PeerSend(k, f) ==
  /\ conns[k].sock = "open"
  /\ hist.peerSent < MaxFrames
  /\ Becomes([Now EXCEPT !.n[k].pipe = @ \o f,
                                        !.h.peerSent = @ + 1])

\* Socket.data_received with the next n bytes of the stream
SocketData(k, n) ==
  /\ conns[k].sock = "open"
  /\ n \in 1..Len(conns[k].pipe)
  /\ Becomes(onSocketHasData(
               [Now EXCEPT !.n[k].pipe = SubSeq(@, n + 1, Len(@))],
               SubSeq(conns[k].pipe, 1, n)))

\* Socket.connection_lost(None): the peer closed, after all it wrote was read
PeerClose(k) ==
  /\ conns[k].sock = "open"
  /\ conns[k].pipe = <<>>
  /\ Becomes(onSocketDisconnected([Now EXCEPT !.n[k].sock = "lost"]))

\* Socket.connection_lost(None) after Connection.disconnect closed the transport
ConnectionLost(k) ==
  /\ conns[k].sock = "closing"
  /\ Becomes(onSocketDisconnected([Now EXCEPT !.n[k].sock = "lost"]))

\* Socket.connection_lost(exc)
SocketError(k) ==
  /\ conns[k].sock = "open"
  /\ Becomes(onSocketHasError([Now EXCEPT !.n[k].sock = "lost",
                                                            !.n[k].pipe = <<>>]))

\* Client.sendMsg(msg) called by the user (through a request method)
SendMsg ==
  /\ hist.userSends < MaxSends
  /\ Becomes(sendMsg([Now EXCEPT !.h.nextId = @ + 1,
                                                         !.h.userSends = @ + 1],
                     [id |-> hist.nextId, kind |-> "request", st |-> loop.now]))

\* the timer set by call_at runs sendMsg(None)
Flush ==
  /\ loop.timers # <<>>
  /\ Head(loop.timers) <= loop.now
  /\ Becomes(sendMsg([Now EXCEPT !.l.timers = Tail(@)], NoMsg))

\* loop.time() advances
Tick ==
  /\ loop.now < MaxTime
  /\ Becomes([Now EXCEPT !.l.now = @ + 1])

GetReqId ==
  /\ Len(hist.ids) < MaxReqIds
  /\ Becomes(getReqId(Now))

GetAccounts == Becomes(getAccounts(Now))

ConnectionStats == Becomes(connectionStats(Now))

(***************************************************************************)
(* Spec: the session machine.  Every connect, disconnect, socket event and *)
(* accessor, with the socket delivering all it has received in one         *)
(* data_received call.                                                     *)
(***************************************************************************)
\* The frames the peer writes in Spec, each delivered before the next is written.
SessionFrames == {Frame(FHandshake), Frame(FNextValidId7), Frame(FNextValidId0),
                  Frame(FAccounts), Frame(FOther)}

Next ==
  \/ ConnectAsync
  \/ \E k \in ConnIds : SocketConnected(k)
  \/ \E k \in ConnIds : ConnectRefused(k)
  \/ \E k \in ConnIds : ConnectTimeout(k)
  \/ \E k \in ConnIds : ConnectReturn(k)
  \/ Disconnect
  \/ \E k \in ConnIds, f \in SessionFrames : conns[k].pipe = <<>> /\ PeerSend(k, f)
  \/ \E k \in ConnIds : SocketData(k, Len(conns[k].pipe))
  \/ \E k \in ConnIds : PeerClose(k)
  \/ \E k \in ConnIds : ConnectionLost(k)
  \/ \E k \in ConnIds : SocketError(k)
  \/ GetReqId
  \/ GetAccounts
  \/ ConnectionStats

Spec == Init /\ [][Next]_vars

(***************************************************************************)
(* SpecFrame: one connection whose socket hands over the peer's byte       *)
(* stream in chunks of any size.                                           *)
(***************************************************************************)
NextFrame ==
  \/ hist.nextConn = 1 /\ ConnectAsync
  \/ SocketConnected(1)
  \/ \E f \in PeerFrames : PeerSend(1, f)
  \/ \E n \in 1..Len(conns[1].pipe) : SocketData(1, n)

SpecFrame == Init /\ [][NextFrame]_vars

(***************************************************************************)
(* SpecRate: the rate limiter.  Sessions that negotiate, send, are cut by  *)
(* socket errors and time out, while the clock advances and the flush      *)
(* timers fire.                                                            *)
(***************************************************************************)
NextRate ==
  \/ client.conn = 0 /\ ConnectAsync
  \/ \E k \in ConnIds : SocketConnected(k)
  \/ \E k \in ConnIds : conns[k].pipe = <<>> /\ PeerSend(k, Frame(FHandshake))
  \/ \E k \in ConnIds : SocketData(k, Len(conns[k].pipe))
  \/ \E k \in ConnIds : SocketError(k)
  \/ SendMsg
  \/ Flush
  \/ Tick

SpecRate == Init /\ [][NextRate]_vars

(***************************************************************************)
(* SpecConnect: connect attempts that succeed, are refused or time out     *)
(* while the handshake and the barrier frames arrive in chunks of any size *)
(* and the user already sends.                                             *)
(***************************************************************************)
ConnectFrames == {Frame(FHandshake), Frame(FNextValidId7), Frame(FAccounts)}

NextConnect ==
  \/ hist.nextConn = 1 /\ ConnectAsync
  \/ \E k \in ConnIds : SocketConnected(k)
  \/ \E k \in ConnIds : ConnectRefused(k)
  \/ \E k \in ConnIds : ConnectTimeout(k)
  \/ \E k \in ConnIds : ConnectReturn(k)
  \/ \E k \in ConnIds, f \in ConnectFrames : conns[k].pipe = <<>> /\ PeerSend(k, f)
  \/ \E k \in ConnIds : \E n \in 1..Len(conns[k].pipe) : SocketData(k, n)
  \/ \E k \in ConnIds : PeerClose(k)
  \/ SendMsg

SpecConnect == Init /\ [][NextConnect]_vars

(***************************************************************************)
(* SpecDispatch: one connection, with or without a priceSizeTick handler,  *)
(* whose peer writes frames of every kind _decode tells apart; the socket  *)
(* delivers all it holds, one frame or several, in one data_received call. *)
(***************************************************************************)
\* tick price "1","6","1","4","1.5","2","0"
FTickPrice == << <<49>>, <<54>>, <<49>>, <<52>>, <<49, 46, 53>>, <<50>>, <<48>> >>
\* tick size "2","6","1","0","5"
FTickSize == << <<50>>, <<54>>, <<49>>, <<48>>, <<53>> >>
\* tick size with fields missing: "2","6","1"
FBadTickSize == << <<50>>, <<54>>, <<49>> >>
\* market depth "12","1","1","0","0","1","1.5","2"
FMktDepth == << <<49, 50>>, <<49>>, <<49>>, <<48>>, <<48>>, <<49>>,
                <<49, 46, 53>>, <<50>> >>
\* tick string "46","6","1","4","A"
FTickString == << <<52, 54>>, <<54>>, <<49>>, <<52>>, <<65>> >>
\* a kind _decode does not look at (3), three fields: "3","1","2"
FOrderStatus == << <<51>>, <<49>>, <<50>> >>

DispatchFrames == {Frame(FHandshake), Frame(FTickPrice), Frame(FTickSize),
                   Frame(FBadTickSize), Frame(FMktDepth), Frame(FTickString),
                   Frame(FNextValidId7), Frame(FAccounts), Frame(FOther),
                   Frame(FOrderStatus)}

InitDispatch ==
  /\ \E p \in BOOLEAN, e \in BOOLEAN, d \in BOOLEAN :
       client = InitClient(p, e, d)
  /\ InitRest

NextDispatch ==
  \/ hist.nextConn = 1 /\ ConnectAsync
  \/ SocketConnected(1)
  \/ \E f \in DispatchFrames : PeerSend(1, f)
  \/ SocketData(1, Len(conns[1].pipe))

SpecDispatch == InitDispatch /\ [][NextDispatch]_vars

(***************************************************************************)
(* SpecDrain: one session that stays connected.  The user submits frames   *)
(* at time 0, as soon as the socket is connected, and then stops; the      *)
(* clock keeps advancing and the loop runs the timers that are due (weak   *)
(* fairness of Tick and Flush).                                            *)
(***************************************************************************)
NextDrain ==
  \/ hist.nextConn = 1 /\ ConnectAsync
  \/ SocketConnected(1)
  \/ conns[1].pipe = <<>> /\ hist.peerSent = 0 /\ PeerSend(1, Frame(FHandshake))
  \/ SocketData(1, Len(conns[1].pipe))
  \/ loop.now = 0 /\ conns[1].socket /\ SendMsg
  \/ Flush
  \/ Tick

SpecDrain ==
  Init /\ [][NextDrain]_vars /\ WF_vars(Tick) /\ WF_vars(Flush)

(***************************************************************************)
(* Claims                                                                  *)
(***************************************************************************)
\* data_received(data) on the state w
Deliver(w, data) == onSocketHasData(Begin(w), data)

\* C1: frame reassembly invariance.  Whatever the socket holds, handing the
\* next n bytes to _onSocketHasData in two consecutive chunks (cut anywhere,
\* inside the length prefix included) extracts the same sequence of field
\* lists as handing them over as one chunk.
C1_ChunkingInvariance ==
  \A k \in ConnIds :
    conns[k].sock = "open" =>
      \A n \in 1..Len(conns[k].pipe) : \A m \in 1..(n - 1) :
        LET bytes == SubSeq(conns[k].pipe, 1, n)
            whole == Deliver(World, bytes)
            first == Deliver(World, SubSeq(bytes, 1, m))
            second == Deliver(first, SubSeq(bytes, m + 1, n))
        IN first.h.frames \o second.h.frames = whole.h.frames

\* The frames the rate limiter handed to the transport of connection k.
WireOf(k) == SelectSeq(hist.wire, LAMBDA e : e.conn = k)

\* C2: rate bound.  Of the frames the rate limiter handed to a transport,
\* any MaxRequests + 1 consecutive ones span more than RequestsInterval: no
\* window of length RequestsInterval holds more than MaxRequests of them.
C2_RateBound ==
  \A k \in ConnIds :
    LET ws == WireOf(k)
    IN \A i \in 1..(Len(ws) - MaxRequests) :
         ws[i + MaxRequests].t - ws[i].t > RequestsInterval

\* C2 witness: a frame that had to wait was handed to the transport by a
\* flush, after MaxRequests earlier ones.
C2_Witness ==
  \E k \in ConnIds :
    LET ws == WireOf(k)
    IN /\ Len(ws) > MaxRequests
       /\ ws[MaxRequests + 1].t > ws[MaxRequests + 1].st

\* C3: FIFO sending.  Frames reach the transports in the order they were
\* submitted (ids count the submissions), the queue holds its frames in
\* that order, and every queued frame was submitted after every frame
\* already transmitted.
C3_Fifo ==
  /\ \A i, j \in 1..Len(hist.wire) : i < j => hist.wire[i].id < hist.wire[j].id
  /\ \A i, j \in 1..Len(client.msgQ) : i < j => client.msgQ[i].id < client.msgQ[j].id
  /\ \A i \in 1..Len(hist.wire), j \in 1..Len(client.msgQ) :
       hist.wire[i].id < client.msgQ[j].id

\* C3 witness: two frames that both had to wait in the queue were
\* transmitted, one after the other.
C3_Witness ==
  \E i, j \in 1..Len(hist.wire) :
    /\ i < j
    /\ hist.wire[i].t > hist.wire[i].st
    /\ hist.wire[j].t > hist.wire[j].st

InSeq(x, seq) == \E i \in 1..Len(seq) : seq[i] = x

\* C4: readiness barrier symmetry.  Once a next-valid-id frame and a
\* managed-accounts frame have both been received since the last reset, in
\* either order, the session is ready.
C4_BarrierSymmetry == (hist.got9 /\ hist.got15) => client.ready

\* C5: the session is ready only if a next-valid-id frame and a
\* managed-accounts frame have both been received since the last reset.
C5_ReadyNeedsBoth == client.ready => (hist.got9 /\ hist.got15)

\* C5 witness: a ready session.
C5_Witness == client.ready /\ hist.got9 /\ hist.got15

\* C6: while the session is not READY, that is before isReady() holds and
\* whenever a reset has left the state DISCONNECTED, getReqId, getAccounts
\* and connectionStats raise 'Not connected', return nothing and change
\* nothing.
C6_RejectsWhenNotReady ==
  [][((~client.ready \/ client.connState = "DISCONNECTED")
        /\ (GetReqId \/ GetAccounts \/ ConnectionStats))
       => /\ hist'.exc = "AssertionError: Not connected"
          /\ hist'.ret = <<>>
          /\ hist'.ids = hist.ids
          /\ client' = client
          /\ conns' = conns
          /\ loop' = loop]_vars

\* C7: the ids getReqId returned in a session are strictly increasing.
C7_IdsIncrease ==
  \A i, j \in 1..Len(hist.ids) : i < j => hist.ids[i] < hist.ids[j]

\* C8: a connect attempt that times out raises TimeoutError to the caller,
\* calls the error hook when one is registered and leaves the session
\* reset: DISCONNECTED, not ready, no connection, inbound buffer and both
\* send queues empty.
C8_TimeoutResets ==
  [][\A k \in ConnIds :
       ConnectTimeout(k)
         => /\ hist'.exc = "TimeoutError"
            /\ conns'[k].attempt = "TimeoutError"
            /\ client.apiError
                 => InSeq("apiError: API connection failed", hist'.hooks)
            /\ client'.connState = "DISCONNECTED"
            /\ ~client'.ready
            /\ client'.conn = 0
            /\ client'.data = <<>>
            /\ client'.msgQ = <<>>
            /\ client'.timeQ = <<>>]_vars

\* C8 witness: an attempt timed out after its socket had connected and
\* frames had been sent on it.
C8_Witness ==
  \E k \in ConnIds :
    /\ conns[k].attempt = "TimeoutError"
    /\ hist.exc = "TimeoutError"
    /\ conns[k].numMsgSent >= 2

\* C9: after a connect attempt failed by timeout its socket is not open.
C9_NoDanglingSocket ==
  \A k \in ConnIds : conns[k].attempt = "TimeoutError" => conns[k].sock # "open"

\* C10: when the peer closes the socket of a connect attempt that has not
\* reached readiness, the registered error hook gets the duplicate-client-id
\* hint and the state becomes DISCONNECTED.
C10_PreReadyCloseHint ==
  [][\A k \in ConnIds :
       (/\ PeerClose(k)
        /\ client.conn = k
        /\ conns[k].attempt = "pending"
        /\ ~client.ready
        /\ client.apiError)
         => /\ InSeq("apiError: clientId already in use?", hist'.hooks)
            /\ client'.connState = "DISCONNECTED"]_vars

Count(x, seq) == Cardinality({i \in 1..Len(seq) : seq[i] = x})

\* C11: a socket error or a close by the peer in a state other than
\* DISCONNECTED resets the session to DISCONNECTED and, when an apiEnd hook
\* is registered, calls it exactly once; on the error path as on the clean
\* close path.
C11_ResetAndApiEnd ==
  [][\A k \in ConnIds :
       ((SocketError(k) \/ PeerClose(k)) /\ client.connState # "DISCONNECTED")
         => /\ client'.connState = "DISCONNECTED"
            /\ ~client'.ready
            /\ client'.conn = 0
            /\ client'.data = <<>>
            /\ client.apiEnd => Count("apiEnd", hist'.hooks) = 1]_vars

\* C12: handshake negotiation.  A frame of exactly two fields that arrives
\* while no server version is recorded (its first field an integer) sets
\* the server version to field 1 and the connection time to field 2, moves
\* the state to CONNECTED and sends the start-API frame; a two-field frame
\* that arrives once a server version is recorded is dispatched as an
\* ordinary message, sends nothing and leaves the server version alone.
C12_HandshakeOnce ==
  [][\A k \in ConnIds :
       (/\ SocketData(k, Len(conns[k].pipe))
        /\ Len(hist'.frames) = 1
        /\ Len(hist'.frames[1]) = 2)
         => LET fields == hist'.frames[1]
            IN IF client.serverVersion = <<>>
               THEN IsInt(fields[1])
                      => /\ client'.serverVersion = <<IntOf(fields[1])>>
                         /\ client'.connTime = fields[2]
                         /\ client'.connState = "CONNECTED"
                         /\ hist'.exc = ""
                         /\ Len(hist'.wire) = Len(hist.wire) + 1
                         /\ Last(hist'.wire).id = hist.nextId
               ELSE /\ hist'.disp = <<"interpret">>
                    /\ hist'.wire = hist.wire
                    /\ client'.msgQ = client.msgQ
                    /\ client'.serverVersion = client.serverVersion
                    /\ client'.connState = client.connState]_vars

\* The buffer starts with a frame the extraction loop of lines 218-229
\* would take.
HoldsFrame(data) ==
  Len(data) > 4 /\ Len(data) >= 4 + unpack(SubSeq(data, 1, 4))

\* C13: a failure while decoding or dispatching one frame never aborts a
\* delivery.  Whatever bytes the socket hands over, _onSocketHasData
\* returns without an exception, has called the tcpDataProcessed hook and
\* has left no frame in the buffer that its loop would still take.
C13_FailureDoesNotAbort ==
  \A k \in ConnIds :
    conns[k].sock = "open" =>
      \A n \in 1..Len(conns[k].pipe) :
        LET r == Deliver(World, SubSeq(conns[k].pipe, 1, n))
        IN /\ r.h.exc = ""
           /\ InSeq("tcpDataProcessed", r.h.hooks)
           /\ ~HoldsFrame(r.c.data)

\* C16: the inbound buffer never retains a complete frame.  It is shorter
\* than the 4-byte prefix, or holds a prefix and a body shorter than the
\* prefix declares (a declared length of 0 included).
C16_BufferInvariant ==
  \/ Len(client.data) < 4
  \/ Len(client.data) < 4 + unpack(SubSeq(client.data, 1, 4))

\* C14: no double scheduling of the rate limiter.  At most one delayed
\* flush, a timer that will call sendMsg(None), is pending.
C14_OneFlushPending == Len(loop.timers) <= 1

\* C15: flush at the earliest legal moment.  Whenever sendMsg returns with
\* frames still queued, a flush is scheduled for the oldest window entry
\* plus RequestsInterval; and a flush that runs at exactly that time, with
\* frames queued, hands at least one of them to the transport.
C15_FlushAtEarliestMoment ==
  [][/\ ((SendMsg \/ Flush) /\ hist'.exc = "" /\ client'.msgQ # <<>>)
          => InSeq(Head(client'.timeQ) + RequestsInterval, loop'.timers)
     /\ (/\ Flush
         /\ client.msgQ # <<>>
         /\ client.timeQ # <<>>
         /\ loop.now = Head(client.timeQ) + RequestsInterval)
          => Len(hist'.wire) > Len(hist.wire)]_vars

\* The frame is one _decode can take apart: an integer kind and, for the
\* kinds _decode handles itself, the fields of that message.
WellFormed(f) ==
  /\ f # <<>>
  /\ IsInt(f[1])
  /\ LET kind == IntOf(f[1])
     IN CASE kind = 1 -> Len(f) = 7 /\ AllInt(f, {3, 4, 6}) /\ IsFloat(f[5])
          [] kind = 2 -> Len(f) = 5 /\ AllInt(f, {3, 4, 5})
          [] kind = 12 -> Len(f) = 8 /\ AllInt(f, {3, 4, 5, 6, 8})
                          /\ IsFloat(f[7])
          [] kind = 46 -> Len(f) = 5 /\ AllInt(f, {3, 4})
          [] kind = 9 -> Len(f) = 3 /\ IsInt(f[3])
          [] kind = 15 -> Len(f) = 3
          [] OTHER -> TRUE

\* C17: dispatch routing.  Every frame of a delivery is dispatched exactly
\* once.  Of the well-formed frames handed to _decode, kinds 2, 12 and 46
\* go to their callback and not to the interpreter; kind 1 goes to the
\* priceSizeTick handler when there is one and to the interpreter
\* otherwise; kinds 9 and 15 have updated the barrier fields and go to
\* the interpreter; every other kind goes to the interpreter; and the
\* interpreter gets the fields unchanged.
C17_DispatchRouting ==
  /\ Len(hist.disp) = Len(hist.frames)
  /\ Len(hist.args) = Len(hist.frames)
  /\ \A i \in 1..Len(hist.frames) :
       LET f == hist.frames[i]
           target == hist.disp[i]
       IN (i <= Len(hist.disp) /\ target # "handshake" /\ WellFormed(f))
            => LET kind == IntOf(f[1])
               IN CASE kind = 2 -> target = "tickSize"
                    [] kind = 12 -> target = "updateMktDepth"
                    [] kind = 46 -> target = "tickString"
                    [] kind = 1 /\ client.priceSizeTick ->
                         target = "priceSizeTick"
                    [] kind = 9 ->
                         /\ target = "interpret" /\ hist.args[i] = f
                         /\ hist.got9
                         /\ i = Len(hist.frames) => client.reqIdSeq = IntOf(f[3])
                    [] kind = 15 ->
                         /\ target = "interpret" /\ hist.args[i] = f
                         /\ hist.got15
                         /\ client.accounts = split(f[3], COMMA)
                    [] OTHER -> target = "interpret" /\ hist.args[i] = f

\* C17 witness: one delivery brought a tick price to the priceSizeTick
\* handler and a tick size to its callback.
C17_Witness ==
  /\ client.priceSizeTick
  /\ InSeq("priceSizeTick", hist.disp)
  /\ InSeq("tickSize", hist.disp)

\* Connection k was abandoned: its connect attempt timed out, or
\* disconnect closed its transport and connection_lost is still to come.
Abandoned(k) ==
  conns[k].attempt = "TimeoutError" \/ conns[k].sock = "closing"

\* C18: socket events of an earlier connection never affect a later
\* session.  While the client holds a connection, a disconnect, error or
\* data event from the socket of another, abandoned connection leaves the
\* client's session as it is: connection, state, readiness, barrier
\* fields, queues and inbound buffer.
C18_OldSocketIsolated ==
  [][\A k \in ConnIds :
       (/\ client.conn # 0
        /\ client.conn # k
        /\ Abandoned(k)
        /\ \/ ConnectionLost(k)
           \/ PeerClose(k)
           \/ SocketError(k)
           \/ SocketData(k, Len(conns[k].pipe)))
         => client' = client]_vars

\* C19: state ordering.  A ready session has a server version recorded:
\* next-valid-id and managed-accounts frames that arrive before the
\* handshake reply do not make the session ready.
C19_ReadyAfterHandshake == client.ready => client.serverVersion # <<>>

\* Frame id waits in the pending queue / was handed to a transport.
Queued(id) == \E i \in 1..Len(client.msgQ) : client.msgQ[i].id = id
OnWire(id) == \E i \in 1..Len(hist.wire) : hist.wire[i].id = id

\* C20: queue drain.  In a session that stays connected, with the clock
\* advancing and due timers run, every frame sendMsg has queued is
\* eventually handed to the transport, and from some time on the queue is
\* empty and the throttling flag false.
C20_QueueDrains ==
  /\ \A id \in 1..(MaxSends + 1) : Queued(id) ~> OnWire(id)
  /\ <>[](client.msgQ = <<>> /\ ~client.isThrottling)

\* C20 witness: frames had to wait, were transmitted by a flush, and the
\* queue is empty with the throttling flag back to false.
C20_Witness ==
  /\ client.msgQ = <<>>
  /\ ~client.isThrottling
  /\ Len(hist.wire) = MaxSends + 1
  /\ \E i \in 1..Len(hist.wire) : hist.wire[i].t > hist.wire[i].st

====
